---- MODULE Spec2Model ----
(***************************************************************************)
(* Model of the naming-convention checker of RepoCleaner                   *)
(* (src/case_checker.py): the tokenizer extract_words, the renderer        *)
(* convert_case and the Convention registry with its check operations.     *)
(*                                                                         *)
(* A Python str is a sequence of one-character strings; a list of words is *)
(* a sequence of such sequences.  A call either returns a value or raises: *)
(* every operation yields a record [exc, val] with exc = "none" on return. *)
(***************************************************************************)
EXTENDS Integers, Sequences, FiniteSets, TLC

\* ------------------------------------------------------------------ bounds
\* longest name the operations are called with
MaxLen == 4
\* most characters, over all its words, of a word list given to convert_case
MaxChars == 4
\* convert_case merges the words to their initials above this many segments
MaxSegments == 3
\* check asking for the manual review only above one segment more
ReviewSegmentsOffByOne == MaxSegments + 1
\* check asks for a manual review, and suggests nothing, above this many segments
ReviewSegments == 3

\* ------------------------------------------------------------- characters
LowerSeq == << "a","b","c","d","e","f","g","h","i","j","k","l","m",
               "n","o","p","q","r","s","t","u","v","w","x","y","z" >>
UpperSeq == << "A","B","C","D","E","F","G","H","I","J","K","L","M",
               "N","O","P","Q","R","S","T","U","V","W","X","Y","Z" >>
Lower == { LowerSeq[i] : i \in 1..Len(LowerSeq) }
Upper == { UpperSeq[i] : i \in 1..Len(UpperSeq) }
Digit == { "0","1","2","3","4","5","6","7","8","9" }
Letter == Lower \cup Upper
\* the characters '-' and '_' that extract_words strips and splits on
Separator == { "-", "_" }
\* \w of the re module, over ASCII
WordChar == Letter \cup Digit \cup { "_" }

\* str.lower() and str.upper() of one character
LowerChar(c) ==
    IF c \in Upper THEN LowerSeq[CHOOSE i \in 1..Len(UpperSeq) : UpperSeq[i] = c] ELSE c
UpperChar(c) ==
    IF c \in Lower THEN UpperSeq[CHOOSE i \in 1..Len(LowerSeq) : LowerSeq[i] = c] ELSE c

\* str.lower()
StrLower(s) == [ i \in 1..Len(s) |-> LowerChar(s[i]) ]

\* a capitalize that uppercases the first character and leaves the others
CapitalizeFirstOnly(w) ==
    [ i \in 1..Len(w) |-> IF i = 1 THEN UpperChar(w[i]) ELSE w[i] ]

\* str.capitalize(): first character uppercased, all the others lowercased
Capitalize(w) ==
    [ i \in 1..Len(w) |-> IF i = 1 THEN UpperChar(w[i]) ELSE LowerChar(w[i]) ]

\* s[i:j] of Python (0-based, j exclusive), for 0 <= i <= j <= Len(s)
Slice(s, i, j) == [ k \in 1..(j - i) |-> s[i + k] ]

\* sep.join(words)
RECURSIVE Join(_, _)
Join(words, sep) ==
    IF Len(words) = 0 THEN << >>
    ELSE IF Len(words) = 1 THEN words[1]
    ELSE words[1] \o sep \o Join(Tail(words), sep)

\* -------------------------------------------------- regular expressions
\* A pattern is a tree; Ends(r, s, i) is the set of positions j such that r
\* matches s[i:j].  Positions are 0..Len(s), between the characters.
Cls(S)     == [ t |-> "set",  cs |-> S ]
Cat(a, b)  == [ t |-> "cat",  l |-> a, r |-> b ]
Alt(a, b)  == [ t |-> "alt",  l |-> a, r |-> b ]
Star(a)    == [ t |-> "star", r |-> a ]
Plus(a)    == [ t |-> "plus", r |-> a ]
Opt(a)     == [ t |-> "opt",  r |-> a ]
Look(a)    == [ t |-> "look", r |-> a ]
Bol        == [ t |-> "bol" ]
Eol        == [ t |-> "eol" ]
WordB      == [ t |-> "wordb" ]

\* ^ without re.MULTILINE
AtBol(s, i) == i = 0
\* $ without re.MULTILINE: at the end, or just before a newline that ends the string
AtEol(s, i) == \/ i = Len(s)
               \/ i = Len(s) - 1 /\ s[Len(s)] = "\n"
\* \b: between a \w and a non-\w character (or the edge of the string)
IsWordAt(s, k) == k >= 1 /\ k <= Len(s) /\ s[k] \in WordChar
AtWordB(s, i) == IsWordAt(s, i) # IsWordAt(s, i + 1)

RECURSIVE Ends(_, _, _)
RECURSIVE Closure(_, _, _, _)
\* positions reachable from `frontier` by zero or more matches of r
Closure(r, s, frontier, seen) ==
    IF frontier = {} THEN seen
    ELSE LET next == UNION { Ends(r, s, k) : k \in frontier } \ (seen \cup frontier)
         IN  Closure(r, s, next, seen \cup frontier)
Ends(r, s, i) ==
    CASE r.t = "set"   -> IF i < Len(s) /\ s[i + 1] \in r.cs THEN { i + 1 } ELSE {}
      [] r.t = "cat"   -> UNION { Ends(r.r, s, k) : k \in Ends(r.l, s, i) }
      [] r.t = "alt"   -> Ends(r.l, s, i) \cup Ends(r.r, s, i)
      [] r.t = "star"  -> Closure(r.r, s, { i }, {})
      [] r.t = "plus"  -> Closure(r.r, s, Ends(r.r, s, i), {})
      [] r.t = "opt"   -> { i } \cup Ends(r.r, s, i)
      [] r.t = "look"  -> IF Ends(r.r, s, i) # {} THEN { i } ELSE {}
      [] r.t = "bol"   -> IF AtBol(s, i) THEN { i } ELSE {}
      [] r.t = "eol"   -> IF AtEol(s, i) THEN { i } ELSE {}
      [] r.t = "wordb" -> IF AtWordB(s, i) THEN { i } ELSE {}

\* re.match(pattern, s): the pattern matches at the start of s; the match
\* need not reach the end of s
ReMatch(pattern, s) == Ends(pattern, s, 0) # {}

\* re.search(r'[a-zA-Z]', s)
HasLetter(s) == \E i \in 1..Len(s) : s[i] \in Letter

\* --------------------------------------------------------------- results
Return(v) == [ exc |-> "none", val |-> v ]
Raise(e)  == [ exc |-> e, val |-> << >> ]

\* ------------------------------------------------------------- tokenizer
\* str.strip('-_')
RECURSIVE LStrip(_)
LStrip(s) == IF Len(s) > 0 /\ s[1] \in Separator THEN LStrip(Tail(s)) ELSE s
RECURSIVE RStrip(_)
RStrip(s) ==
    IF Len(s) > 0 /\ s[Len(s)] \in Separator THEN RStrip(SubSeq(s, 1, Len(s) - 1)) ELSE s
Strip(s) == RStrip(LStrip(s))

\* re.split(r'[-_]', s): one cut per separator character, so two separators
\* in a row leave an empty segment between them
RECURSIVE SplitFrom(_, _, _)
SplitFrom(s, start, i) ==
    IF i = Len(s) THEN << Slice(s, start, i) >>
    ELSE IF s[i + 1] \in Separator
         THEN << Slice(s, start, i) >> \o SplitFrom(s, i + 1, i + 1)
         ELSE SplitFrom(s, start, i + 1)
ReSplit(s) == SplitFrom(s, 0, 0)

\* r'[A-Z]?[a-z0-9]+|[A-Z]+(?=[A-Z][a-z]|\b)'
WordRunA == Cat(Opt(Cls(Upper)), Plus(Cls(Lower \cup Digit)))
WordRunB == Cat(Plus(Cls(Upper)), Look(Alt(Cat(Cls(Upper), Cls(Lower)), WordB)))

SetMax(S) == CHOOSE m \in S : \A k \in S : k <= m

\* end of the match the regex engine reports at position i, or -1.  The first
\* alternative is tried first; inside an alternative every quantifier is
\* greedy and only a zero-width test follows it, so the engine's match is
\* the longest one of that alternative.
WordMatchEnd(s, i) ==
    LET a == Ends(WordRunA, s, i)
        b == Ends(WordRunB, s, i)
    IN  IF a # {} THEN SetMax(a) ELSE IF b # {} THEN SetMax(b) ELSE -1

\* re.findall(pattern, s): the non-overlapping matches, scanning left to
\* right; a position where nothing matches is skipped
RECURSIVE FindAllFrom(_, _)
FindAllFrom(s, i) ==
    IF i >= Len(s) THEN << >>
    ELSE LET j == WordMatchEnd(s, i)
         IN  IF j > i THEN << Slice(s, i, j) >> \o FindAllFrom(s, j)
             ELSE FindAllFrom(s, i + 1)
FindAllWords(s) == FindAllFrom(s, 0)

LowerAll(words) == [ k \in 1..Len(words) |-> StrLower(words[k]) ]

\* extract_words past its guard: strip, then the delimiter path or the
\* compound-capital path
SplitWords(name) ==
    LET stripped == Strip(name)
    IN  IF \E i \in 1..Len(stripped) : stripped[i] \in Separator
        THEN LowerAll(ReSplit(stripped))
        ELSE LET words == FindAllWords(stripped)
             IN  IF Len(words) > 0 THEN LowerAll(words) ELSE << StrLower(stripped) >>

\* an extract_words whose guard accepts a digit where it wants a letter
extract_words_alnum(name) ==
    IF ~(\E i \in 1..Len(name) : name[i] \in Letter \cup Digit)
    THEN Raise("ValueError")
    ELSE Return(SplitWords(name))

extract_words(name) ==
    IF ~HasLetter(name) THEN Raise("ValueError") ELSE Return(SplitWords(name))

\* -------------------------------------------------------------- renderer
CASE_STYLES == << "kebab-case", "snake_case", "camelCase", "PascalCase" >>

\* the value None and a str value, as convert_case returns them
PyNone == [ isNone |-> TRUE, s |-> << >> ]
PyStr(s) == [ isNone |-> FALSE, s |-> s ]

\* [''.join(w[0] for w in words)]: w[0] raises IndexError on an empty word
Initials(words) == [ k \in 1..Len(words) |-> words[k][1] ]

CapitalizeAll(words) == [ k \in 1..Len(words) |-> Capitalize(words[k]) ]

\* the if/elif chain over target_case; falling off its end returns None
ApplyCase(words, target_case) ==
    CASE target_case = "kebab-case" -> PyStr(Join(words, << "-" >>))
      [] target_case = "snake_case" -> PyStr(Join(words, << "_" >>))
      [] target_case = "camelCase"  ->
            PyStr(words[1] \o Join(CapitalizeAll(Tail(words)), << >>))
      [] target_case = "PascalCase" -> PyStr(Join(CapitalizeAll(words), << >>))
      [] OTHER -> PyNone

\* a convert_case that never merges the words to their initials
convert_case_unmerged(words, target_case) ==
    IF Len(words) = 0 /\ target_case = "camelCase"
    THEN Raise("IndexError")
    ELSE Return(ApplyCase(words, target_case))

\* convert_case called with a list of words
convert_case(words, target_case) ==
    IF Len(words) > MaxSegments
    THEN IF \E k \in 1..Len(words) : Len(words[k]) = 0
         THEN Raise("IndexError")
         ELSE Return(ApplyCase(<< Initials(words) >>, target_case))
    ELSE IF Len(words) = 0 /\ target_case = "camelCase"
         THEN Raise("IndexError")
         ELSE Return(ApplyCase(words, target_case))

\* convert_case called with a str: the words are extracted first
convert_case_str(name, target_case) ==
    LET w == extract_words(name)
    IN  IF w.exc # "none" THEN w ELSE convert_case(w.val, target_case)

\* ------------------------------------------------------- policy document
\* A value of the parsed YAML document: null, a mapping, a style name, or a
\* pattern (held as the tree the re module compiles it to).
Null == [ t |-> "null" ]
Map(f) == [ t |-> "map", m |-> f ]
Str(s) == [ t |-> "str", v |-> s ]
Pat(r) == [ t |-> "pat", v |-> r ]
EmptyMap == Map(<< >>)

IsMap(d) == d.t = "map"
\* d.get(key, default) of a dict
Get(d, key, default) == IF key \in DOMAIN d.m THEN d.m[key] ELSE default
\* truth value of a document value: None, '' and {} are false
Truthy(d) ==
    CASE d.t = "null" -> FALSE
      [] d.t = "map"  -> DOMAIN d.m # {}
      [] d.t = "str"  -> d.v # ""
      [] d.t = "pat"  -> TRUE

\* ------------------------------------------------------ built-in patterns
LowerDigit == Lower \cup Digit
AlphaNum == Letter \cup Digit
\* ^[a-z0-9]+(-[a-z0-9]+)*$
KebabPattern ==
    Cat(Bol, Cat(Plus(Cls(LowerDigit)),
        Cat(Star(Cat(Cls({ "-" }), Plus(Cls(LowerDigit)))), Eol)))
\* ^[a-z][a-z0-9_]*$
SnakePattern ==
    Cat(Bol, Cat(Cls(Lower), Cat(Star(Cls(LowerDigit \cup { "_" })), Eol)))
\* ^[a-z][a-zA-Z0-9]*$
CamelPattern == Cat(Bol, Cat(Cls(Lower), Cat(Star(Cls(AlphaNum)), Eol)))
\* ^[A-Z][a-zA-Z0-9]*$
PascalPattern == Cat(Bol, Cat(Cls(Upper), Cat(Star(Cls(AlphaNum)), Eol)))

CASE_PATTERNS ==
    Map([ s \in { "kebab-case", "snake_case", "camelCase", "PascalCase" } |->
            CASE s = "kebab-case" -> Pat(KebabPattern)
              [] s = "snake_case" -> Pat(SnakePattern)
              [] s = "camelCase"  -> Pat(CamelPattern)
              [] s = "PascalCase" -> Pat(PascalPattern) ])

\* --------------------------------------------------------------- registry
\* Convention.__init__ with a loaded document: the fields data, naming, cases
ConventionInit(conventions_dict) ==
    IF ~IsMap(conventions_dict) THEN Raise("AttributeError")
    ELSE LET naming == Get(conventions_dict, "naming", EmptyMap)
         IN  IF ~IsMap(naming) THEN Raise("AttributeError")
             ELSE Return([ data   |-> conventions_dict,
                           naming |-> naming,
                           cases  |-> Get(naming, "case", EmptyMap) ])

\* Convention.get_pattern: the document's pattern first, then the built-in
get_pattern(self, case_name) ==
    IF ~IsMap(self.cases) THEN Raise("AttributeError")
    ELSE LET entry == Get(self.cases, case_name, EmptyMap)
         IN  IF ~IsMap(entry) THEN Raise("AttributeError")
             ELSE LET pattern == Get(entry, "pattern", Null)
                  IN  IF Truthy(pattern) THEN Return(pattern)
                      ELSE Return(Get(CASE_PATTERNS, case_name, Null))

\* an issue string: its fixed text (kind) and the values formatted into it
Issue(kind, a, b, value) == [ kind |-> kind, a |-> a, b |-> b, value |-> value ]
UnknownStyleIssue(case_name) == Issue("Unknown case style", case_name, "", << >>)
DoesNotMatchIssue(case_name) == Issue("Does not match", case_name, "", << >>)
TooManySegmentsIssue == Issue("Too many segments", "", "", << >>)
\* f"Suggested: '{suggested}'": None is formatted as the text None
NoneText == << "N", "o", "n", "e" >>
FormatValue(v) == IF v.isNone THEN NoneText ELSE v.s
SuggestedIssue(suggested) == Issue("Suggested", "", "", FormatValue(suggested))
NoRepositoryIssue == Issue("No repository convention defined", "", "", << >>)
NoDirectoryIssue == Issue("No directory convention defined", "", "", << >>)
NoLanguageIssue(language) == Issue("No conventions for language", language, "", << >>)
NoElementIssue(language, element_type) ==
    Issue("No convention for", language, element_type, << >>)

\* Convention.check
check(self, name, case_name) ==
    LET pattern == get_pattern(self, case_name)
    IN  IF pattern.exc # "none" THEN pattern
        ELSE IF ~Truthy(pattern.val) THEN Return(<< UnknownStyleIssue(case_name) >>)
        ELSE IF ReMatch(pattern.val.v, name) THEN Return(<< >>)
        ELSE LET words == extract_words(name)
             IN  IF words.exc # "none" THEN words
                 ELSE IF Len(words.val) > ReviewSegments
                 THEN Return(<< DoesNotMatchIssue(case_name), TooManySegmentsIssue >>)
                 ELSE LET suggested == convert_case(words.val, case_name)
                      IN  IF suggested.exc # "none" THEN suggested
                          ELSE IF suggested.val # PyStr(name)
                          THEN Return(<< DoesNotMatchIssue(case_name),
                                         SuggestedIssue(suggested.val) >>)
                          ELSE Return(<< DoesNotMatchIssue(case_name) >>)

\* the lookup shared by check_repository and check_directory
CheckCategory(self, name, category, noConvention) ==
    LET entry == Get(self.naming, category, EmptyMap)
    IN  IF ~IsMap(entry) THEN Raise("AttributeError")
        ELSE LET case_style == Get(entry, "case", Null)
             IN  IF ~Truthy(case_style) THEN Return(<< noConvention >>)
                 ELSE check(self, name, case_style.v)

check_repository(self, name) == CheckCategory(self, name, "repository", NoRepositoryIssue)
check_directory(self, name) == CheckCategory(self, name, "directory", NoDirectoryIssue)

check_language(self, name, language, element_type) ==
    LET langs == Get(self.naming, "language", EmptyMap)
    IN  IF ~IsMap(langs) THEN Raise("AttributeError")
        ELSE LET lang == Get(langs, language, EmptyMap)
             IN  IF ~Truthy(lang) THEN Return(<< NoLanguageIssue(language) >>)
                 ELSE IF ~IsMap(lang) THEN Raise("AttributeError")
                 ELSE LET case_style == Get(lang, element_type, Null)
                      IN  IF ~Truthy(case_style)
                          THEN Return(<< NoElementIssue(language, element_type) >>)
                          ELSE check(self, name, case_style.v)

\* Convention.get_suggested_name
get_suggested_name(name, case_name) == convert_case_str(name, case_name)

\* ---------------------------------------------------------------- inputs
\* one character of each kind the code tells apart: lowercase, uppercase,
\* digit, the two separators, and a character outside \w (the newline)
Alphabet == { "a", "B", "1", "-", "_", "\n" }
WordAlphabet == { "a", "B", "1" }

SeqsUpTo(S, n) == UNION { [ 1..k -> S ] : k \in 0..n }

\* "1234", "a--b-c", "MyRepoName", "openaec-tools", "HTTPServer", "OpenPDFStudio",
\* "my-repo-name", "my_repo_name"
ExampleNames ==
    { << "1","2","3","4" >>, << "a","-","-","b","-","c" >>,
      << "M","y","R","e","p","o","N","a","m","e" >>,
      << "o","p","e","n","a","e","c","-","t","o","o","l","s" >>,
      << "H","T","T","P","S","e","r","v","e","r" >>,
      << "O","p","e","n","P","D","F","S","t","u","d","i","o" >>,
      << "m","y","-","r","e","p","o","-","n","a","m","e" >>,
      << "m","y","_","r","e","p","o","_","n","a","m","e" >> }
Names == SeqsUpTo(Alphabet, MaxLen) \cup ExampleNames

\* the word lists: every way to cut a string of at most MaxChars characters
\* into 1 .. MaxSegments + 1 words, empty words included
CutPoints(n) ==
    { c \in SeqsUpTo(0..n, MaxSegments) : \A k \in 1..(Len(c) - 1) : c[k] <= c[k + 1] }
CutAt(s, c) ==
    [ k \in 1..(Len(c) + 1) |->
        Slice(s, IF k = 1 THEN 0 ELSE c[k - 1], IF k = Len(c) + 1 THEN Len(s) ELSE c[k]) ]
\* ["open", "pdf", "studio", "tool"]
ExampleWords ==
    << << "o","p","e","n" >>, << "p","d","f" >>,
       << "s","t","u","d","i","o" >>, << "t","o","o","l" >> >>
WordLists ==
    UNION { { CutAt(s, c) : c \in CutPoints(Len(s)) } :
            s \in SeqsUpTo(WordAlphabet, MaxChars) }
    \cup { ExampleWords }

\* a style of the document only, and a style nobody defines
ScreamingStyle == "SCREAMING_SNAKE_CASE"
Styles == { "kebab-case", "snake_case", "camelCase", "PascalCase",
            ScreamingStyle, "Title Case" }

\* ^[A-Z][A-Z0-9_]*$
ScreamingPattern ==
    Cat(Bol, Cat(Cls(Upper), Cat(Star(Cls(Upper \cup Digit \cup { "_" })), Eol)))
\* ^[a-z0-9]+(-[a-z0-9]+)* : an override written without the trailing $
KebabOpenPattern ==
    Cat(Bol, Cat(Plus(Cls(LowerDigit)),
        Star(Cat(Cls({ "-" }), Plus(Cls(LowerDigit))))))

Languages == { "cpp", "python" }
ElementTypes == { "function", "class" }

\* a complete document
FullDoc ==
    Map("naming" :> Map(
        "case" :> Map("kebab-case" :> Map("pattern" :> Pat(KebabOpenPattern))
                      @@ ScreamingStyle :> Map("pattern" :> Pat(ScreamingPattern)))
        @@ "repository" :> Map("case" :> Str("kebab-case"))
        @@ "directory" :> Map("case" :> Str("snake_case"))
        @@ "language" :> Map("cpp" :> Map("function" :> Str("camelCase")
                                          @@ "class" :> Str("PascalCase")))))
\* a document with sections left out, empty, or naming a style without pattern
SparseDoc ==
    Map("naming" :> Map(
        "case" :> Map("snake_case" :> EmptyMap)
        @@ "repository" :> Map("case" :> Str(ScreamingStyle))
        @@ "directory" :> EmptyMap
        @@ "language" :> Map("cpp" :> Map("function" :> Str("Title Case"))
                             @@ "python" :> EmptyMap)))
\* documents with keys present and no value (null)
NullEntriesDoc ==
    Map("naming" :> Map(
        "case" :> Map("kebab-case" :> Null)
        @@ "repository" :> Null
        @@ "directory" :> Map("case" :> Null)
        @@ "language" :> Map("cpp" :> Null
                             @@ "python" :> Map("function" :> Null))))
NullSectionsDoc ==
    Map("naming" :> Map("case" :> Null @@ "language" :> Null
                        @@ "directory" :> Map("case" :> Str(""))))
Docs == { EmptyMap, Null, Map("naming" :> Null), Map("naming" :> EmptyMap),
          FullDoc, SparseDoc, NullEntriesDoc, NullSectionsDoc }

\* ------------------------------------------------- loading the document
\* The text of conventions.yaml, as the cache file holds it or as GitHub
\* serves it: text that parses to a document, or text that is not YAML.
Text(doc) == [ t |-> "text", doc |-> doc ]
BadText == [ t |-> "badtext" ]
\* the cache file does not exist
NoFile == [ t |-> "absent" ]
\* gh fails, or its output cannot be decoded
FetchFailed == [ t |-> "failed" ]

Contents == { Text(d) : d \in Docs } \cup { BadText }
FetchOutcomes == Contents \cup { FetchFailed }

\* yaml.safe_load(content)
YamlLoad(content) ==
    IF content.t = "text" THEN Return(content.doc) ELSE Raise("YAMLError")

\* Convention._fetch_from_github: the content, or RuntimeError
fetch_from_github(fetched) ==
    IF fetched.t = "failed" THEN Raise("RuntimeError") ELSE Return(fetched)

\* Convention._load: the cache file if there is one, else GitHub, whose
\* content is written to the cache before it is parsed.  Gives the call's
\* outcome and the cache file it leaves.
load(cacheFile, fetched) ==
    IF cacheFile.t # "absent"
    THEN LET doc == YamlLoad(cacheFile)
         IN  [ res   |-> IF doc.exc = "none" THEN doc ELSE Raise("RuntimeError"),
               cache |-> cacheFile ]
    ELSE LET content == fetch_from_github(fetched)
         IN  IF content.exc # "none" THEN [ res |-> content, cache |-> cacheFile ]
             ELSE LET doc == YamlLoad(content.val)
                  IN  [ res   |-> IF doc.exc = "none" THEN doc
                                  ELSE Raise("RuntimeError"),
                        cache |-> content.val ]

\* Convention.refresh, statement by statement: each assignment made before
\* a statement raises stays made.  Gives the outcome, the fields and the
\* cache file it leaves.
refresh(fields, cacheFile, fetched) ==
    LET content == fetch_from_github(fetched)
    IN  IF content.exc # "none"
        THEN [ res |-> content, self |-> fields, cache |-> cacheFile ]
        ELSE LET doc == YamlLoad(content.val)
             IN  IF doc.exc # "none"
                 THEN [ res |-> doc, self |-> fields, cache |-> content.val ]
                 ELSE LET withData == [ fields EXCEPT !.data = doc.val ]
                      IN  IF ~IsMap(doc.val)
                          THEN [ res |-> Raise("AttributeError"), self |-> withData,
                                 cache |-> content.val ]
                          ELSE LET naming == Get(doc.val, "naming", EmptyMap)
                                   withNaming == [ withData EXCEPT !.naming = naming ]
                               IN  IF ~IsMap(naming)
                                   THEN [ res |-> Raise("AttributeError"),
                                          self |-> withNaming, cache |-> content.val ]
                                   ELSE [ res   |-> Return(<< >>),
                                          self  |-> [ withNaming EXCEPT
                                                        !.cases = Get(naming, "case", EmptyMap) ],
                                          cache |-> content.val ]

\* ----------------------------------------------------------------- state
VARIABLES
    convention,  \* the module's _convention: "None" or "Convention"
    self,        \* the fields data, naming, cases of that instance
    cache,       \* the cache file ~/.cache/openaec-conventions.yaml
    call,        \* the call in progress: its operation and arguments
    result,      \* what that call returned or raised
    run          \* the command-line run: its position, flags and gh commands

vars == << convention, self, cache, call, result, run >>

NoFields == [ data |-> Null, naming |-> Null, cases |-> Null ]
\* no call in progress: the caller is free to make one
NoCall == [ op |-> "none" ]
Idle == call = NoCall

\* the command-line run before main() has parsed its arguments
NotStarted ==
    [ pc |-> "start", licenses |-> FALSE, fix_licenses |-> FALSE,
      repo_naming |-> FALSE, fix_repo_naming |-> FALSE, confirmed |-> FALSE,
      repos |-> << >>, issued |-> {} ]

Init ==
    /\ convention = "None"
    /\ self = NoFields
    /\ cache = NoFile
    /\ run = NotStarted
    /\ call = NoCall
    /\ result = Return(<< >>)

\* get_convention() when no instance exists yet: the constructor loads the
\* document and sets the fields; if it raises, no instance is kept
GetConvention ==
    /\ Idle
    /\ convention = "None"
    /\ \E fetched \in FetchOutcomes :
         LET loaded == load(cache, fetched)
             r == IF loaded.res.exc # "none" THEN loaded.res
                  ELSE ConventionInit(loaded.res.val)
         IN  /\ call' = [ op |-> "Convention" ]
             /\ result' = IF r.exc = "none" THEN Return(<< >>) ELSE r
             /\ convention' = IF r.exc = "none" THEN "Convention" ELSE "None"
             /\ self' = IF r.exc = "none" THEN r.val ELSE NoFields
             /\ cache' = loaded.cache
             /\ UNCHANGED run

\* Convention.refresh on the instance
Refresh ==
    /\ Idle
    /\ convention = "Convention"
    /\ \E fetched \in FetchOutcomes :
         LET r == refresh(self, cache, fetched)
         IN  /\ call' = [ op |-> "refresh", fetched |-> fetched ]
             /\ result' = r.res
             /\ self' = r.self
             /\ cache' = r.cache
             /\ UNCHANGED << convention, run >>

ExtractWords ==
    /\ Idle
    /\ \E name \in Names :
        /\ call' = [ op |-> "extract_words", name |-> name ]
        /\ result' = extract_words(name)
        /\ UNCHANGED << convention, self, cache, run >>

ConvertCase ==
    /\ Idle
    /\ \E words \in WordLists, style \in Styles :
        /\ call' = [ op |-> "convert_case", words |-> words, style |-> style ]
        /\ result' = convert_case(words, style)
        /\ UNCHANGED << convention, self, cache, run >>

GetSuggestedName ==
    /\ Idle
    /\ convention = "Convention"
    /\ \E name \in Names, style \in Styles :
        /\ call' = [ op |-> "get_suggested_name", name |-> name, style |-> style ]
        /\ result' = get_suggested_name(name, style)
        /\ UNCHANGED << convention, self, cache, run >>

Check ==
    /\ Idle
    /\ convention = "Convention"
    /\ \E name \in Names, style \in Styles :
        /\ call' = [ op |-> "check", name |-> name, style |-> style ]
        /\ result' = check(self, name, style)
        /\ UNCHANGED << convention, self, cache, run >>

CheckRepository ==
    /\ Idle
    /\ convention = "Convention"
    /\ \E name \in Names :
        /\ call' = [ op |-> "check_repository", name |-> name ]
        /\ result' = check_repository(self, name)
        /\ UNCHANGED << convention, self, cache, run >>

CheckDirectory ==
    /\ Idle
    /\ convention = "Convention"
    /\ \E name \in Names :
        /\ call' = [ op |-> "check_directory", name |-> name ]
        /\ result' = check_directory(self, name)
        /\ UNCHANGED << convention, self, cache, run >>

CheckLanguage ==
    /\ Idle
    /\ convention = "Convention"
    /\ \E name \in Names, language \in Languages, element_type \in ElementTypes :
        /\ call' = [ op |-> "check_language", name |-> name,
                     language |-> language, element_type |-> element_type ]
        /\ result' = check_language(self, name, language, element_type)
        /\ UNCHANGED << convention, self, cache, run >>

\* the caller has taken the value or the exception of the finished call
Finish ==
    /\ ~Idle
    /\ call' = NoCall
    /\ result' = Return(<< >>)
    /\ UNCHANGED << convention, self, cache, run >>

Next ==
    \/ GetConvention
    \/ ExtractWords
    \/ ConvertCase
    \/ GetSuggestedName
    \/ Check
    \/ CheckRepository
    \/ CheckDirectory
    \/ CheckLanguage
    \/ Finish

Spec == Init /\ [][Next]_vars

\* the instance with its refresh: loading, refreshing, and the caller going on
RefreshNext ==
    \/ GetConvention
    \/ Refresh
    \/ Finish

RefreshSpec == Init /\ [][RefreshNext]_vars

\* ------------------------------------------------------ command-line run
\* most repositories one listing holds
MaxRepos == 2

\* the gh commands main() and its helpers run
ApiGetCommand == "gh api contents"
RepoListCommand == "gh repo list"
IssueListCommand == "gh issue list"
IssueEditCommand == "gh issue edit"
IssueReopenCommand == "gh issue reopen"
IssuePinCommand == "gh issue pin"
IssueCreateCommand == "gh issue create"
ApiPutCommand == "gh api PUT contents"
RenameCommand == "gh repo rename"
\* those that change something on GitHub
MutatingCommands ==
    { IssueEditCommand, IssueReopenCommand, IssuePinCommand, IssueCreateCommand,
      ApiPutCommand, RenameCommand }

\* what the user types at the prompt
Responses == { << "y","e","s" >>, << "Y","E","S" >>, << "n","o" >>, << >> }
Yes == << "y","e","s" >>

\* the repositories of a listing: a name, and whether it has a default branch
RepoNames ==
    { << "o","p","e","n","a","e","c","-","t","o","o","l","s" >>,
      << "M","y","R","e","p","o","N","a","m","e" >>,
      << "1","2","3","4" >> }
Repos == [ name : RepoNames, defaultBranchRef : BOOLEAN ]
RepoLists == UNION { [ 1..n -> Repos ] : n \in 0..MaxRepos }

\* the state of the issue 'Naming convention violations' of a repository
IssueStates == { "none", "OPEN", "CLOSED" }

\* the commands create_repo_issue runs when all of them succeed
IssueCommands(existing) ==
    IF existing = "none"
    THEN << IssueListCommand, IssueCreateCommand, IssuePinCommand >>
    ELSE IF existing = "CLOSED"
    THEN << IssueListCommand, IssueEditCommand, IssueReopenCommand, IssuePinCommand >>
    ELSE << IssueListCommand, IssueEditCommand, IssuePinCommand >>

\* create_repo_issue: it runs its commands in order and gives up silently
\* at the first that fails; ran is how many commands it got to run
create_repo_issue(existing, ran) ==
    LET commands == IssueCommands(existing)
        n == IF ran < Len(commands) THEN ran ELSE Len(commands)
    IN  { commands[i] : i \in 1..n }

\* the gh command _load runs, if any
LoadCommands(cacheFile) == IF cacheFile.t = "absent" THEN { ApiGetCommand } ELSE {}

\* main() with --string-naming: load the conventions, print the converted
\* string or the error, and exit
CliStringNaming ==
    /\ run.pc = "start"
    /\ \E fetched \in FetchOutcomes :
         LET loaded == load(cache, fetched)
             r == IF loaded.res.exc # "none" THEN loaded.res
                  ELSE ConventionInit(loaded.res.val)
         IN  /\ convention' = IF r.exc = "none" THEN "Convention" ELSE "None"
             /\ self' = IF r.exc = "none" THEN r.val ELSE NoFields
             /\ cache' = loaded.cache
             /\ run' = [ run EXCEPT !.pc = "exit",
                                    !.issued = @ \cup LoadCommands(cache) ]
    /\ UNCHANGED << call, result >>

\* main() from the parsed flags to the prompt: no flag or conflicting flags
\* exit; a fix flag asks for 'yes' and exits on any other answer
CliStart ==
    /\ run.pc = "start"
    /\ \E licenses, fix_licenses, repo_naming, fix_repo_naming \in BOOLEAN,
          response \in Responses :
         LET rejected == \/ ~(licenses \/ fix_licenses \/ repo_naming \/ fix_repo_naming)
                         \/ licenses /\ fix_licenses
                         \/ repo_naming /\ fix_repo_naming
             prompted == ~rejected /\ (fix_licenses \/ fix_repo_naming)
             confirmed == prompted /\ StrLower(response) = Yes
         IN  run' = [ run EXCEPT
                        !.licenses = licenses, !.fix_licenses = fix_licenses,
                        !.repo_naming = repo_naming,
                        !.fix_repo_naming = fix_repo_naming,
                        !.confirmed = confirmed,
                        !.pc = IF rejected \/ (prompted /\ ~confirmed)
                               THEN "exit" ELSE "load" ]
    /\ UNCHANGED << convention, self, cache, call, result >>

\* main(): load the conventions, then look for gh and for LICENSE.md
CliLoad ==
    /\ run.pc = "load"
    /\ \E fetched \in FetchOutcomes, ghInstalled, licenseFile \in BOOLEAN :
         LET loaded == load(cache, fetched)
             r == IF loaded.res.exc # "none" THEN loaded.res
                  ELSE ConventionInit(loaded.res.val)
             check_licenses == run.licenses \/ run.fix_licenses
         IN  /\ convention' = IF r.exc = "none" THEN "Convention" ELSE "None"
             /\ self' = IF r.exc = "none" THEN r.val ELSE NoFields
             /\ cache' = loaded.cache
             /\ run' = [ run EXCEPT
                           !.issued = @ \cup LoadCommands(cache),
                           !.pc = IF \/ r.exc # "none"
                                     \/ ~ghInstalled
                                     \/ check_licenses /\ ~licenseFile
                                  THEN "exit" ELSE "list" ]
    /\ UNCHANGED << call, result >>

\* main(): the one repository of --single-repo, which has no default
\* branch, or the listing of the organization; a failed, unreadable or
\* empty listing exits
CliListRepos ==
    /\ run.pc = "list"
    /\ \/ \E name \in RepoNames :
            run' = [ run EXCEPT
                       !.repos = << [ name |-> name, defaultBranchRef |-> FALSE ] >>,
                       !.pc = "loop" ]
       \/ \E listed \in BOOLEAN, repos \in RepoLists :
            run' = [ run EXCEPT
                       !.issued = @ \cup { RepoListCommand },
                       !.repos = IF listed THEN repos ELSE << >>,
                       !.pc = IF listed /\ repos # << >> THEN "loop" ELSE "exit" ]
    /\ UNCHANGED << convention, self, cache, call, result >>

\* main(): one turn of the loop over the repositories.  The name is
\* checked; when it has issues the issue of the repository is created or
\* updated, and with --fix-repo-naming the new name is printed.  Then the
\* LICENSE.md of a repository with a default branch is fetched and
\* compared; with --fix-licenses the update is printed.  An exception of
\* the checker ends the run.
CliProcessRepo ==
    /\ run.pc = "loop"
    /\ \E existing \in IssueStates, ran \in 1..4 :
         LET repo == Head(run.repos)
             check_licenses == run.licenses \/ run.fix_licenses
             check_naming == run.repo_naming \/ run.fix_repo_naming
             fix_naming == run.fix_repo_naming
             case_style == Get(Get(self.naming, "repository", EmptyMap),
                               "case", Str("kebab-case"))
         IN  \E naming_issues \in { IF check_naming
                                    THEN check_repository(self, repo.name)
                                    ELSE Return(<< >>) } :
               LET has_issues == naming_issues.exc = "none" /\ naming_issues.val # << >>
               IN  \E suggested_name \in
                          { IF has_issues /\ fix_naming
                            THEN get_suggested_name(repo.name,
                                     IF case_style.t = "str" THEN case_style.v
                                     ELSE "None")
                            ELSE Return(PyNone) } :
                     LET naming_commands ==
                             IF has_issues THEN create_repo_issue(existing, ran) ELSE {}
                         raised == \/ naming_issues.exc # "none"
                                   \/ suggested_name.exc # "none"
                         license_commands ==
                             IF ~raised /\ check_licenses /\ repo.defaultBranchRef
                             THEN { ApiGetCommand } ELSE {}
                     IN  run' = [ run EXCEPT
                                    !.issued = @ \cup naming_commands
                                                 \cup license_commands,
                                    !.repos = Tail(@),
                                    !.pc = IF raised THEN "exit"
                                           ELSE IF Tail(run.repos) = << >>
                                           THEN "summary" ELSE "loop" ]
    /\ UNCHANGED << convention, self, cache, call, result >>

\* main(): the summary, and the exit
CliSummary ==
    /\ run.pc = "summary"
    /\ run' = [ run EXCEPT !.pc = "exit" ]
    /\ UNCHANGED << convention, self, cache, call, result >>

CliNext ==
    \/ CliStringNaming
    \/ CliStart
    \/ CliLoad
    \/ CliListRepos
    \/ CliProcessRepo
    \/ CliSummary

CliSpec == Init /\ [][CliNext]_vars

\* ------------------------------------------------------------- properties
BuiltinStyles == { CASE_STYLES[i] : i \in 1..Len(CASE_STYLES) }

\* the whole string matches the pattern: some match ends at the end of s
FullMatch(pattern, s) == Len(s) \in Ends(pattern, s, 0)

\* the pattern check uses for the style of the call, when there is one
CallPattern == get_pattern(self, call.style)
CallHasPattern == CallPattern.exc = "none" /\ Truthy(CallPattern.val)

\* C1: check(name, style) returns the empty list if and only if the whole
\* string name matches the pattern of the style; a name of which only a
\* proper prefix matches is not reported as conformant.
C1_EmptyIffWholeMatch ==
    (call.op = "check" /\ CallHasPattern)
        => ((result = Return(<< >>)) <=> FullMatch(CallPattern.val.v, call.name))

\* the words of the name of the call, and the rendering the claim speaks of
CallWords == extract_words(call.name)
CallRendered == convert_case(CallWords.val, call.style)

\* what C2 says check returns for a name that fails the pattern
C2_Issues ==
    /\ result.exc = "none"
    /\ CallWords.exc = "none"
    /\ Len(result.val) >= 1
    /\ result.val[1] = DoesNotMatchIssue(call.style)
    /\ IF Len(CallWords.val) > 3
       THEN result.val = << DoesNotMatchIssue(call.style), TooManySegmentsIssue >>
       ELSE /\ CallRendered.exc = "none"
            /\ IF CallRendered.val # PyStr(call.name)
               THEN result.val = << DoesNotMatchIssue(call.style),
                                    SuggestedIssue(CallRendered.val) >>
               ELSE result.val = << DoesNotMatchIssue(call.style) >>

MyRepoName == << "M","y","R","e","p","o","N","a","m","e" >>
MyRepoNameKebab == << "m","y","-","r","e","p","o","-","n","a","m","e" >>
C2_Example ==
    (/\ call.op = "check" /\ call.name = MyRepoName /\ call.style = "kebab-case"
     /\ CallHasPattern)
        => /\ result.exc = "none"
           /\ Len(result.val) = 2
           /\ result.val[2] = Issue("Suggested", "", "", MyRepoNameKebab)

\* C2 as stated: every name that fails the pattern of a known style gets the
\* 'does not match' issue first, then the manual-review issue when it has
\* more than 3 words, else a suggestion exactly when the rendering differs.
C2_EveryFailingName ==
    (call.op = "check" /\ CallHasPattern /\ ~ReMatch(CallPattern.val.v, call.name))
        => C2_Issues

\* C2 amended: the same for every failing name that contains an ASCII
\* letter; for a failing name without a letter check raises the tokenizer's
\* error (ValueError) and returns no list.
C2_FailingNameWithLetter ==
    /\ (call.op = "check" /\ CallHasPattern /\ ~ReMatch(CallPattern.val.v, call.name))
          => IF \E i \in 1..Len(call.name) : call.name[i] \in Letter
             THEN C2_Issues
             ELSE result.exc = "ValueError"
    /\ C2_Example

C2_Witness ==
    /\ call.op = "check" /\ call.name = MyRepoName /\ call.style = "kebab-case"
    /\ result.val = << DoesNotMatchIssue("kebab-case"),
                       Issue("Suggested", "", "", MyRepoNameKebab) >>

\* C3: tokenize fails with the invalid-input error (ValueError) if and only
\* if the name contains no ASCII letter; otherwise it returns a non-empty
\* word sequence.
C3_ErrorIffNoLetter ==
    call.op = "extract_words"
        => LET letter == \E i \in 1..Len(call.name) : call.name[i] \in Letter
           IN  /\ (result.exc = "ValueError") <=> ~letter
               /\ letter => (result.exc = "none" /\ Len(result.val) >= 1)

C3_Witness ==
    /\ call.op = "extract_words"
    /\ call.name = << "1","2","3","4" >>
    /\ result.exc = "ValueError"

\* the name of the call after strip('-_') takes the delimiter path
CallStripped == Strip(call.name)
OnDelimiterPath ==
    /\ \E i \in 1..Len(call.name) : call.name[i] \in Letter
    /\ \E i \in 1..Len(CallStripped) : CallStripped[i] \in Separator

\* C4: on the delimiter path a run of separators is one boundary, so no
\* returned word is the empty string.
C4_NoEmptyWord ==
    (call.op = "extract_words" /\ OnDelimiterPath)
        => /\ result.exc = "none"
           /\ \A k \in 1..Len(result.val) : result.val[k] # << >>

\* C5: on the compound-capital path every run, also an uppercase run
\* followed by a digit, is returned as a word: the words of a name of
\* letters and digits concatenate to the lowercased name.
C5_WordsCoverName ==
    (/\ call.op = "extract_words"
     /\ \E i \in 1..Len(call.name) : call.name[i] \in Letter
     /\ \A i \in 1..Len(call.name) : call.name[i] \in Letter \cup Digit)
        => /\ result.exc = "none"
           /\ Join(result.val, << >>) = StrLower(call.name)

\* first letter uppercased, the rest of the word unchanged
CapFirstKeepRest(w) ==
    [ i \in 1..Len(w) |-> IF i = 1 THEN UpperChar(w[i]) ELSE w[i] ]
\* first letter uppercased, the rest of the word lowercased
CapFirstLowerRest(w) ==
    [ i \in 1..Len(w) |-> IF i = 1 THEN UpperChar(w[i]) ELSE LowerChar(w[i]) ]

RECURSIVE Concat(_)
Concat(ws) == IF Len(ws) = 0 THEN << >> ELSE ws[1] \o Concat(Tail(ws))
RECURSIVE JoinWith(_, _)
JoinWith(ws, c) ==
    IF Len(ws) = 1 THEN ws[1] ELSE ws[1] \o << c >> \o JoinWith(Tail(ws), c)

\* the rendering of 1 to 3 words, with Cap the capitalisation of a word
Rendering(ws, style, Cap(_)) ==
    CASE style = "kebab-case" -> JoinWith(ws, "-")
      [] style = "snake_case" -> JoinWith(ws, "_")
      [] style = "camelCase"  ->
            ws[1] \o Concat([ k \in 1..(Len(ws) - 1) |-> Cap(ws[k + 1]) ])
      [] style = "PascalCase" -> Concat([ k \in 1..Len(ws) |-> Cap(ws[k]) ])

RenderCall ==
    /\ call.op = "convert_case"
    /\ call.style \in BuiltinStyles
    /\ Len(call.words) >= 1

\* C6 as stated: for 1 to 3 words, the words joined with '-' or '_', or
\* concatenated with the first letter of a word uppercased and the rest of
\* the word unchanged (camelCase: from the second word on).
C6_RestUnchanged ==
    (RenderCall /\ Len(call.words) <= 3)
        => result = Return(PyStr(Rendering(call.words, call.style, CapFirstKeepRest)))

\* C6 amended: the same, with the first letter of a capitalised word
\* uppercased and the rest of that word lowercased.
C6_RestLowercased ==
    (RenderCall /\ Len(call.words) <= 3)
        => result = Return(PyStr(Rendering(call.words, call.style, CapFirstLowerRest)))

C6_Witness ==
    /\ call.op = "convert_case"
    /\ call.words = << << "a" >>, << "a", "B" >> >>
    /\ call.style = "camelCase"
    /\ result = Return(PyStr(<< "a", "A", "b" >>))

\* C7: for more than 3 words the words are replaced by the one word of
\* their first characters, to which the style rule is applied, so the
\* result has no separator; for 3 or fewer words nothing is merged.
C7_InitialsOfEveryList ==
    (RenderCall /\ Len(call.words) > 3)
        => /\ result.exc = "none"
           /\ ~result.val.isNone
           /\ StrLower(result.val.s) =
                StrLower([ k \in 1..Len(call.words) |-> Head(call.words[k]) ])

\* C8 as stated: [open, pdf, studio, tool] renders in kebab-case to 'o-p-s-t'.
C8_Call ==
    /\ call.op = "convert_case"
    /\ call.words = ExampleWords
    /\ call.style = "kebab-case"
C8_InitialsJoinedBySeparator ==
    C8_Call => result = Return(PyStr(<< "o","-","p","-","s","-","t" >>))

\* C8 amended: [open, pdf, studio, tool] renders in kebab-case to 'opst',
\* the initials as one word with no separator.
C8_InitialsAsOneWord ==
    C8_Call => result = Return(PyStr(<< "o","p","s","t" >>))

C8_Witness == C8_Call /\ result.exc = "none" /\ Len(result.val.s) = 4

\* C9: render and suggest with a style outside the four built-in ones fail;
\* they never return a value.
C9_UnknownStyleFails ==
    (/\ call.op \in { "convert_case", "get_suggested_name" }
     /\ call.style \notin BuiltinStyles)
        => result.exc # "none"

\* a lookup that gives "undefined" (null) where the key or the mapping is missing
Lookup(d, key) == IF d.t = "map" /\ key \in DOMAIN d.m THEN d.m[key] ELSE Null
DocNaming == Lookup(self.data, "naming")

CategoryOutcome(category, noConvention) ==
    LET style == Lookup(Lookup(DocNaming, category), "case")
    IN  IF ~Truthy(style) THEN result = Return(<< noConvention >>)
        ELSE result = check(self, call.name, style.v)

LanguageOutcome ==
    LET lang == Lookup(Lookup(DocNaming, "language"), call.language)
        style == Lookup(lang, call.element_type)
    IN  IF ~Truthy(lang) THEN result = Return(<< NoLanguageIssue(call.language) >>)
        ELSE IF ~Truthy(style)
        THEN result = Return(<< NoElementIssue(call.language, call.element_type) >>)
        ELSE result = check(self, call.name, style.v)

\* C10: for every policy document, entries absent, empty or null included,
\* check_repository, check_directory and check_language do not fail: they
\* return the one 'no convention' issue when the style, the language or the
\* element kind is missing, and the result of check on the style otherwise.
C10_LookupsNeverFail ==
    /\ call.op = "check_repository" => CategoryOutcome("repository", NoRepositoryIssue)
    /\ call.op = "check_directory" => CategoryOutcome("directory", NoDirectoryIssue)
    /\ call.op = "check_language" => LanguageOutcome

\* the call renders the words of its name: render(tokenize(name), style)
RenderOfName ==
    /\ call.op = "get_suggested_name"
    /\ call.style \in BuiltinStyles
    /\ CallWords.exc = "none"
    /\ Len(CallWords.val) <= 3

\* C11: a name that matches the built-in pattern of a style (here: the whole
\* name does) and has at most 3 words is rendered in that style to itself.
C11_ConformantNameIsKept ==
    (RenderOfName /\ FullMatch(CASE_PATTERNS.m[call.style].v, call.name))
        => result = Return(PyStr(call.name))

\* C12: for a name of at most 3 words and each of the four styles, the
\* words of the rendered name are the words of the name.
C12_WordsSurviveRendering ==
    RenderOfName
        => /\ result.exc = "none"
           /\ ~result.val.isNone
           /\ extract_words(result.val.s) = Return(CallWords.val)

\* C14: the value of every 'Suggested' issue check emits matches the
\* pattern check used for the style: check on the value finds no issue.
\* Stated for the names made of letters, digits and separators.
C14_SuggestionConforms ==
    (/\ call.op = "check"
     /\ \A i \in 1..Len(call.name) : call.name[i] \in AlphaNum \cup Separator
     /\ result.exc = "none"
     /\ Len(result.val) = 2
     /\ result.val[2].kind = "Suggested")
        => check(self, result.val[2].value, call.style) = Return(<< >>)

\* the cache file and the fields all come from the fetched document
AllFromFetched(fetched, fields, cacheFile) ==
    /\ fetched.t = "text"
    /\ cacheFile = fetched
    /\ ConventionInit(fetched.doc).exc = "none"
    /\ fields = ConventionInit(fetched.doc).val

\* C15: refresh is all-or-nothing: whether it returns or raises, the cache
\* file and the fields data, naming and cases either all come from the
\* fetched document or are all as they were before the call.
C15_RefreshAllOrNothing ==
    [][ (call'.op = "refresh" /\ call.op = "none")
            => \/ AllFromFetched(call'.fetched, self', cache')
               \/ UNCHANGED << self, cache >> ]_vars

\* C13: a run with check flags only (--licenses, --repo-naming, no --fix-*)
\* issues no mutating GitHub command, and in any run every mutating command
\* comes after the confirmation prompt was answered 'yes'.
C13_NoMutationWithoutConfirmation ==
    /\ (~run.fix_licenses /\ ~run.fix_repo_naming)
           => run.issued \cap MutatingCommands = {}
    /\ run.issued \cap MutatingCommands # {} => run.confirmed

====
